---- MODULE Spec2Model ----
(***************************************************************************)
(* Model of the configuration-fallback search of scripts/build_one.py      *)
(* (springkill/iris): the candidate search of build_project, one host or   *)
(* sandboxed attempt per candidate, the local/global ledgers (CSV files)   *)
(* and the per-project idempotency marker (build-info/<slug>.json).        *)
(*                                                                         *)
(* A Python dict with optional keys is a record whose missing keys hold    *)
(* NoKey; None and the empty dict are both falsy in the code and are both  *)
(* the record EmptyAttempt.  CSV cells are strings, as csv reads them; the *)
(* timestamp column is left out (it is never read back).                   *)
(***************************************************************************)
EXTENDS Integers, Sequences, FiniteSets, TLC

VARIABLES
    localLedger,      \* rows of data/build-info/build_info_local.csv, header skipped
    globalLedger,     \* rows of data/build_info.csv (never written by build_one.py)
    build_info,       \* slug -> content of build-info/<slug>.json, EmptyAttempt when the file is absent
    ALLVERSIONS,      \* the toolchain table and what is on disk behind it, as loaded by this process
    args,             \* the command line of the running process (argparse namespace)
    pc,               \* position of the running process inside main / build_project
    custom_attempt,   \* build_project's custom_attempt (EmptyAttempt = None)
    local_build_info, \* build_project's local_build_info (EmptyAttempt = None / not assigned)
    global_build_info,\* build_project's global_build_info (EmptyAttempt = None / not assigned)
    idx,              \* index of the next entry of ATTEMPTS in the for loop
    attempted,        \* this run's attempts so far: <<[src, cand, ret]>>
    consulted,        \* the ledgers this run has looked up
    last,             \* what the latest attempt of this run did
    result,           \* how the process ended: "none" while running
    builds,           \* slug -> number of build commands that exited zero so far (saturating)
    runs,             \* number of processes started so far
    job,              \* the sandboxed call under way: a build attempt or a database pipeline run
    spc,              \* position of that call inside its function body
    images,           \* slug -> the project's image is in the local docker image store
    container,        \* the call's container: "none", "created", "running", "removed", "stuck"
    events,           \* the docker operations and stage commands the call has issued, in order
    pending,          \* what the try body ended with, while the finally block runs
    outcome,          \* what the call returned or raised: "none" while it runs
    host_db,          \* what the call has put under host_db_dir/<slug>-docker
    merged,           \* the list load_build_info returned, when it is the latest ledger operation
    call,             \* the latest ledger operation, its arguments and what it returned
    wpc,              \* worker -> position inside save_local_build_result, or "crashed"
    wbuf,             \* worker -> the rows it read (old) and the rows it is writing (rows)
    wlog,             \* worker -> the rows whose save_local_build_result call has returned
    driver            \* the loop calling the sandboxed function: a search or a pipeline batch

\* the state of the candidate search
searchVars == <<localLedger, globalLedger, build_info, ALLVERSIONS, args, pc, custom_attempt,
                local_build_info, global_build_info, idx, attempted, consulted, last, result,
                builds, runs>>

\* the state of one sandboxed call
sandboxVars == <<job, spc, images, container, events, pending, outcome, host_db>>

\* the state of the ledger operations taken on their own
lookupVars == <<merged, call>>

\* the state of concurrent save_local_build_result calls
writerVars == <<wpc, wbuf, wlog>>

\* the state of the loop around the sandboxed calls
driverVars == <<driver>>

vars == <<searchVars, sandboxVars, lookupVars, writerVars, driverVars>>

-----------------------------------------------------------------------------
(* Bounds of the model *)

\* number of build_one.py processes run one after the other
MaxRuns == 2

\* rows the local ledger holds at most when the ledger operations are taken on their own
MaxRows == 3

\* save_local_build_result calls one worker makes at most
MaxCalls == 2

\* the successful builds counted per project saturate here
MaxBuilds == 2

Projects == {"p1", "p2"}

-----------------------------------------------------------------------------
(* Candidates (attempt dicts) *)

NoKey == "<no key>"

EmptyAttempt == [jdk |-> NoKey, mvn |-> NoKey, gradle |-> NoKey, gradlew |-> NoKey]

Mvn(j, v) == [jdk |-> j, mvn |-> v, gradle |-> NoKey, gradlew |-> NoKey]

Gradle(j, v) == [jdk |-> j, mvn |-> NoKey, gradle |-> v, gradlew |-> NoKey]

Gradlew(j, w) == [jdk |-> j, mvn |-> NoKey, gradle |-> NoKey, gradlew |-> w]

\* Python truthiness of a dict or None
Truthy(attempt) == attempt # EmptyAttempt

\* the default list with its first two entries exchanged
ATTEMPTS_swapped ==
    << Mvn("17", "3.5.0"), Mvn("8", "3.5.0"), Mvn("17", "3.9.8"), Mvn("8", "3.9.8"),
       Gradle("17", "8.9"), Gradle("8", "7.6.4"), Gradle("8", "6.8.2"),
       Gradlew("8", "1"), Gradlew("17", "1") >>

\* ATTEMPTS, build_one.py:36-46 ({"gradlew": 1} is the cell "1" once written)
ATTEMPTS ==
    << Mvn("8", "3.5.0"), Mvn("17", "3.5.0"), Mvn("17", "3.9.8"), Mvn("8", "3.9.8"),
       Gradle("17", "8.9"), Gradle("8", "7.6.4"), Gradle("8", "6.8.2"),
       Gradlew("8", "1"), Gradlew("17", "1") >>

NEWLY_BUILT == "newly-built"

ALREADY_BUILT == "already-built"

FAILED == "failed"

\* an exception leaving the function (ValueError, FileNotFoundError, docker errors)
RAISED == "raised"

\* number of build-tool selectors of a candidate
SelectorCount(attempt) ==
    (IF attempt.mvn # NoKey THEN 1 ELSE 0) + (IF attempt.gradle # NoKey THEN 1 ELSE 0)
        + (IF attempt.gradlew # NoKey THEN 1 ELSE 0)

-----------------------------------------------------------------------------
(* Toolchain table: ALLVERSIONS[kind][version] and the filesystem behind it *)

\* "absent": version not in the table; "nopath": the table's path is not on disk;
\* "nobin": the path exists, bin/<executable> does not; "ok": all there
TcStates == {"absent", "nopath", "nobin", "ok"}

TcKeys == { <<"jdks", "8">>, <<"jdks", "17">>, <<"mvn", "3.5.0">>, <<"mvn", "3.9.8">>,
            <<"gradle", "8.9">>, <<"gradle", "7.6.4">>, <<"gradle", "6.8.2">> }

AllOk == [k \in TcKeys |-> "ok"]

\* ALLVERSIONS[kind].get(version) and the state of what it points to
Resolve(table, kind, version) ==
    IF <<kind, version>> \in DOMAIN table THEN table[<<kind, version>>] ELSE "absent"

-----------------------------------------------------------------------------
(* Ledger rows *)

Row(slug, status, jdk, mvn, gradle, gradlew) ==
    [project_slug |-> slug, status |-> status, jdk_version |-> jdk,
     mvn_version |-> mvn, gradle_version |-> gradle, use_gradlew |-> gradlew]

\* attempt.get(key, "n/a") as csv.writer writes it
Cell(v) == IF v = NoKey THEN "n/a" ELSE v

\* the row save_local_build_result appends, build_one.py:83-91
NewRow(project_slug, success, attempt) ==
    Row(project_slug, IF success THEN "success" ELSE "failure",
        Cell(attempt.jdk), Cell(attempt.mvn), Cell(attempt.gradle), Cell(attempt.gradlew))

save_local_build_result_overwrite(rows, project_slug, success, attempt) ==
    << NewRow(project_slug, success, attempt) >>

\* save_local_build_result: read all rows, append one, write all back
save_local_build_result(rows, project_slug, success, attempt) ==
    Append(rows, NewRow(project_slug, success, attempt))

\* the dict get_build_info_from_csv builds from one row, build_one.py:111-122
RowAttempt(row) ==
    [jdk     |-> IF row.jdk_version \notin {"n/a", ""} THEN row.jdk_version ELSE NoKey,
     mvn     |-> IF row.mvn_version \notin {"n/a", ""} THEN row.mvn_version ELSE NoKey,
     gradle  |-> IF row.gradle_version \notin {"n/a", ""} THEN row.gradle_version ELSE NoKey,
     gradlew |-> IF row.use_gradlew # "n/a"
                 THEN (IF row.use_gradlew = "True" THEN "1" ELSE "0")
                 ELSE NoKey]

\* build_one.py:125: a JDK and any build-tool key
Usable(attempt) == attempt.jdk # NoKey /\ SelectorCount(attempt) >= 1

RECURSIVE FirstUsable_anystatus(_, _, _)
FirstUsable_anystatus(project_slug, rows, i) ==
    IF i > Len(rows) THEN EmptyAttempt
    ELSE IF /\ rows[i].project_slug = project_slug
            /\ Usable(RowAttempt(rows[i]))
         THEN RowAttempt(rows[i])
         ELSE FirstUsable_anystatus(project_slug, rows, i + 1)

RECURSIVE FirstUsable(_, _, _)
FirstUsable(project_slug, rows, i) ==
    IF i > Len(rows) THEN EmptyAttempt
    ELSE IF /\ rows[i].project_slug = project_slug
            /\ rows[i].status = "success"
            /\ Usable(RowAttempt(rows[i]))
         THEN RowAttempt(rows[i])
         ELSE FirstUsable(project_slug, rows, i + 1)

\* get_build_info_from_csv: the first usable success row of the project, or None
get_build_info_from_csv(project_slug, rows) == FirstUsable(project_slug, rows, 1)

\* build_info[row["project_slug"]] = row on a dict held as the list of its values, in
\* insertion order: a key already there keeps its place
DictSet(d, row) ==
    IF \E i \in 1..Len(d) : d[i].project_slug = row.project_slug
    THEN [i \in 1..Len(d) |-> IF d[i].project_slug = row.project_slug THEN row ELSE d[i]]
    ELSE Append(d, row)

\* load_build_info, build_codeql_dbs.py:266-271: every local success row is stored
RECURSIVE LoadLocal(_, _, _)
LoadLocal(rows, i, d) ==
    IF i > Len(rows) THEN d
    ELSE LoadLocal(rows, i + 1, IF rows[i].status = "success" THEN DictSet(d, rows[i]) ELSE d)

RECURSIVE LoadGlobal_overwrite(_, _, _)
LoadGlobal_overwrite(rows, i, d) ==
    IF i > Len(rows) THEN d
    ELSE LoadGlobal_overwrite(rows, i + 1,
                              IF rows[i].status # "success" THEN d ELSE DictSet(d, rows[i]))

\* load_build_info, build_codeql_dbs.py:274-280: a global success row is stored when the
\* dict has no entry for its project
RECURSIVE LoadGlobal(_, _, _)
LoadGlobal(rows, i, d) ==
    IF i > Len(rows) THEN d
    ELSE LoadGlobal(rows, i + 1,
                    IF rows[i].status # "success" THEN d
                    ELSE IF \E k \in 1..Len(d) : d[k].project_slug = rows[i].project_slug THEN d
                    ELSE DictSet(d, rows[i]))

\* load_build_info, build_codeql_dbs.py:259-282 (an absent local file is no rows)
load_build_info(local, global) == LoadGlobal(global, 1, LoadLocal(local, 1, << >>))

\* is_built: the marker file exists
is_built(markers, project_slug) == markers[project_slug] # EmptyAttempt

-----------------------------------------------------------------------------
(* One host-mode attempt *)

\* what the launched build command can do: exit zero, exit non-zero
\* (CalledProcessError), or not be found on PATH (FileNotFoundError, uncaught)
ExitKinds == {"zero", "nonzero", "enoent"}

\* state of <source tree>/gradlew for build_with_gradlew: absent, chmod fails, usable
GradlewStates == {"missing", "chmodfail", "ok"}

Outcome(res, launched, markers) == [result |-> res, launched |-> launched, markers |-> markers]

\* save_build_info: write build-info/<slug>.json
save_build_info(markers, project_slug, attempt) == [markers EXCEPT ![project_slug] = attempt]

\* build_with_maven, build_one.py:134-192
build_with_maven(markers, table, project_slug, attempt, exit) ==
    LET java == Resolve(table, "jdks", attempt.jdk)
        maven == Resolve(table, "mvn", attempt.mvn)
    IN  IF java = "absent" \/ maven = "absent" THEN Outcome(FAILED, FALSE, markers)
        ELSE IF java = "nopath" \/ maven = "nopath" THEN Outcome(FAILED, FALSE, markers)
        ELSE IF java = "nobin" \/ maven = "nobin" THEN Outcome(FAILED, FALSE, markers)
        ELSE IF exit = "zero"
             THEN Outcome(NEWLY_BUILT, TRUE, save_build_info(markers, project_slug, attempt))
             ELSE Outcome(FAILED, TRUE, markers)

\* build_with_gradle, build_one.py:195-240: bin/java and bin/gradle are not looked at
build_with_gradle(markers, table, project_slug, attempt, exit) ==
    LET java == Resolve(table, "jdks", attempt.jdk)
        gradle == Resolve(table, "gradle", attempt.gradle)
    IN  IF java = "absent" \/ gradle = "absent" THEN Outcome(FAILED, FALSE, markers)
        ELSE IF java = "nopath" \/ gradle = "nopath" THEN Outcome(FAILED, FALSE, markers)
        ELSE IF exit = "zero"
             THEN Outcome(NEWLY_BUILT, TRUE, save_build_info(markers, project_slug, attempt))
             ELSE IF exit = "enoent" THEN Outcome(RAISED, FALSE, markers)
             ELSE Outcome(FAILED, TRUE, markers)

\* build_with_gradlew, build_one.py:243-290: bin/java is not looked at
build_with_gradlew(markers, table, project_slug, attempt, gw, exit) ==
    LET java == Resolve(table, "jdks", attempt.jdk)
    IN  IF gw = "missing" THEN Outcome(FAILED, FALSE, markers)
        ELSE IF gw = "chmodfail" THEN Outcome(FAILED, FALSE, markers)
        ELSE IF java = "absent" \/ java = "nopath" THEN Outcome(FAILED, FALSE, markers)
        ELSE IF exit = "zero"
             THEN Outcome(NEWLY_BUILT, TRUE,
                          save_build_info(markers, project_slug, Gradlew(attempt.jdk, "1")))
             ELSE Outcome(FAILED, TRUE, markers)

\* the exits the environment can produce for this candidate: the command is missing
\* from PATH only when build_with_gradle launches gradle without <gradle>/bin/gradle
PossibleExits(table, attempt) ==
    IF /\ attempt.mvn = NoKey
       /\ attempt.gradle # NoKey
       /\ Resolve(table, "gradle", attempt.gradle) = "nobin"
    THEN ExitKinds
    ELSE {"zero", "nonzero"}

build_project_with_attempt_unchecked(markers, table, project_slug, attempt, gw, exit) ==
    IF attempt.mvn # NoKey THEN build_with_maven(markers, table, project_slug, attempt, exit)
    ELSE IF attempt.gradle # NoKey THEN build_with_gradle(markers, table, project_slug, attempt, exit)
    ELSE IF attempt.gradlew # NoKey
         THEN build_with_gradlew(markers, table, project_slug, attempt, gw, exit)
    ELSE Outcome(RAISED, FALSE, markers)

\* build_project_with_attempt, build_one.py:293-308
build_project_with_attempt(markers, table, project_slug, attempt, gw, exit) ==
    IF is_built(markers, project_slug) THEN Outcome(ALREADY_BUILT, FALSE, markers)
    ELSE IF attempt.mvn # NoKey THEN build_with_maven(markers, table, project_slug, attempt, exit)
    ELSE IF attempt.gradle # NoKey THEN build_with_gradle(markers, table, project_slug, attempt, exit)
    ELSE IF attempt.gradlew # NoKey
         THEN build_with_gradlew(markers, table, project_slug, attempt, gw, exit)
    ELSE Outcome(RAISED, FALSE, markers)

\* try_build_with_attempt, build_one.py:311-324: the attempt plus its ledger row
try_build_with_attempt(rows, markers, table, project_slug, attempt, gw, exit) ==
    LET b == build_project_with_attempt(markers, table, project_slug, attempt, gw, exit)
    IN  [ret      |-> IF b.result \in {NEWLY_BUILT, ALREADY_BUILT} THEN "true"
                      ELSE IF b.result = FAILED THEN "false" ELSE RAISED,
         result   |-> b.result,
         launched |-> b.launched,
         markers  |-> b.markers,
         rows     |-> IF b.result = NEWLY_BUILT
                      THEN save_local_build_result(rows, project_slug, TRUE, attempt)
                      ELSE IF b.result = FAILED
                      THEN save_local_build_result(rows, project_slug, FALSE, attempt)
                      ELSE rows]

-----------------------------------------------------------------------------
(* One sandboxed attempt *)

\* how far the attempt gets: ensure_image raises, create_container raises,
\* container.start raises, exec_in_container raises, or the command exits
SandboxOutcomes == {"image", "create", "start", "exec", "zero", "nonzero"}

\* build_inside_container, build_one.py:376-398
build_inside_container(attempt, o) ==
    LET created == o \notin {"image", "create"}
        started == created /\ o # "start"
        hasCmd == SelectorCount(attempt) >= 1
    IN  [ret           |-> IF ~started THEN RAISED
                           ELSE IF ~hasCmd THEN "false"
                           ELSE IF o = "exec" THEN RAISED
                           ELSE IF o = "zero" THEN "true" ELSE "false",
         launched      |-> started /\ hasCmd /\ o \in {"zero", "nonzero"},
         created       |-> created,
         removeInvoked |-> created]

-----------------------------------------------------------------------------
(* The command line *)

\* validate_and_create_custom_attempt, build_one.py:327-373; exit = sys.exit(1)
validate_and_create_custom_attempt(table, jdk, mvn, gradle, gradlew) ==
    LET count == (IF mvn # NoKey THEN 1 ELSE 0) + (IF gradle # NoKey THEN 1 ELSE 0)
                     + (IF gradlew THEN 1 ELSE 0)
        bad == \/ jdk = NoKey
               \/ Resolve(table, "jdks", jdk) = "absent"
               \/ (mvn # NoKey /\ Resolve(table, "mvn", mvn) = "absent")
               \/ (gradle # NoKey /\ Resolve(table, "gradle", gradle) = "absent")
               \/ count = 0
               \/ count > 1
    IN  [exit    |-> bad,
         attempt |-> IF bad THEN EmptyAttempt
                     ELSE [jdk |-> jdk, mvn |-> mvn, gradle |-> gradle,
                           gradlew |-> IF gradlew THEN "1" ELSE NoKey]]

NoArgs == [project_slug |-> "", try_all |-> FALSE, use_container |-> FALSE,
           jdk |-> NoKey, mvn |-> NoKey, gradle |-> NoKey, gradlew |-> FALSE]

\* the command lines tried
CliArgs ==
    [project_slug : Projects, try_all : BOOLEAN, use_container : BOOLEAN,
     jdk : {NoKey, "8"}, mvn : {NoKey, "3.5.0"}, gradle : {NoKey, "8.9"}, gradlew : BOOLEAN]

\* main, build_one.py:490: any custom version argument given
WantsCustom(a) == a.jdk # NoKey \/ a.mvn # NoKey \/ a.gradle # NoKey \/ a.gradlew

\* the toolchain installations tried
TcEnvs ==
    { AllOk,
      [AllOk EXCEPT ![<<"jdks", "8">>] = "absent"],
      [AllOk EXCEPT ![<<"gradle", "8.9">>] = "nobin"] }

\* the global ledgers tried: p2 has no row in either
GlobalLedgers ==
    { << Row("p1", "failure", "8", "3.5.0", "n/a", "n/a"),
         Row("p1", "success", "8", "n/a", "n/a", "n/a"),
         Row("p1", "success", "17", "3.9.8", "n/a", "n/a") >>,
      << Row("p1", "success", "8", "3.5.0", "8.9", "n/a") >> }

-----------------------------------------------------------------------------
(* State of a sandboxed call and of the ledger operations before any is made *)

\* no sandboxed call under way
NoJob == [kind |-> "none", slug |-> "", selector |-> "none", registered |-> FALSE,
          patch |-> FALSE, custom |-> FALSE]

\* no ledger operation made yet
NoCall == [op |-> "none", slug |-> "", success |-> FALSE, attempt |-> EmptyAttempt,
           ret |-> EmptyAttempt]

\* a docker daemon that holds no project image, and no call under way
SandboxIdle ==
    /\ job = NoJob
    /\ spc = "idle"
    /\ images = [p \in Projects |-> FALSE]
    /\ container = "none"
    /\ events = << >>
    /\ pending = "none"
    /\ outcome = "none"
    /\ host_db = "absent"

LookupIdle ==
    /\ merged = << >>
    /\ call = NoCall

\* what a worker holds outside save_local_build_result
NoBuf == [old |-> << >>, rows |-> << >>]

\* no save_local_build_result call under way, none made
WritersIdle ==
    /\ wpc = [w \in Projects |-> "idle"]
    /\ wbuf = [w \in Projects |-> NoBuf]
    /\ wlog = [w \in Projects |-> << >>]

\* no loop running
NoDriver == [kind |-> "none", project |-> NoKey, idx |-> 1, log |-> << >>,
             state |-> "idle", result |-> "none"]

DriverIdle == driver = NoDriver

-----------------------------------------------------------------------------
(* The search of build_project, one loop position per step *)

\* where build_project starts, build_one.py:404, 411
EntryPc(custom, try_all) ==
    IF Truthy(custom) THEN "custom" ELSE IF ~try_all THEN "local" ELSE "defaults"

\* a search that falls through to the ledgers when the custom attempt fails
AfterCustom_fallthrough(ret) == IF ret = "false" THEN "local" ELSE "done"

\* build_one.py:405-408: return after the one custom attempt, whatever it gave
AfterCustom(ret) == "done"

\* a search that goes from a failed ledger candidate straight to the default list
AfterLedger_skip(ret, next) == IF ret = "false" THEN "defaults" ELSE "done"

\* build_one.py:414-420: return True on success, go on to the next source on failure
AfterLedger(ret, next) == IF ret = "false" THEN next ELSE "done"

\* a loop that does not return on success
AfterDefault_continue(ret, i) == IF ret # RAISED /\ i < Len(ATTEMPTS) THEN "defaults" ELSE "done"

\* build_one.py:427-432: return True on success, else the next entry, else return False
AfterDefault(ret, i) == IF ret = "false" /\ i < Len(ATTEMPTS) THEN "defaults" ELSE "done"

NoLast == [mode |-> "none", result |-> "none", ret |-> "none", launched |-> FALSE,
           created |-> FALSE, removeInvoked |-> FALSE]

Bump(n) == IF n < MaxBuilds THEN n + 1 ELSE n

\* try_build_with_attempt applied to the files on disk
HostAttempt(src, attempt) ==
    \E gw \in GradlewStates, exit \in PossibleExits(ALLVERSIONS, attempt) :
        LET t == try_build_with_attempt(localLedger, build_info, ALLVERSIONS,
                                        args.project_slug, attempt, gw, exit)
        IN  /\ localLedger' = t.rows
            /\ build_info' = t.markers
            /\ builds' = IF t.result = NEWLY_BUILT
                         THEN [builds EXCEPT ![args.project_slug] = Bump(@)]
                         ELSE builds
            /\ last' = [mode |-> "host", result |-> t.result, ret |-> t.ret,
                        launched |-> t.launched, created |-> FALSE, removeInvoked |-> FALSE]
            /\ attempted' = Append(attempted, [src |-> src, cand |-> attempt, ret |-> t.ret])

\* build_inside_container applied to the docker daemon
SandboxAttempt(src, attempt) ==
    \E o \in SandboxOutcomes :
        LET c == build_inside_container(attempt, o)
        IN  /\ UNCHANGED <<localLedger, build_info>>
            /\ builds' = IF c.ret = "true"
                         THEN [builds EXCEPT ![args.project_slug] = Bump(@)]
                         ELSE builds
            /\ last' = [mode |-> "sandbox", result |-> "none", ret |-> c.ret,
                        launched |-> c.launched, created |-> c.created,
                        removeInvoked |-> c.removeInvoked]
            /\ attempted' = Append(attempted, [src |-> src, cand |-> attempt, ret |-> c.ret])

\* the conditional expression of build_one.py:414, 419, 428
Attempt(src, attempt) ==
    IF ~args.use_container THEN HostAttempt(src, attempt) ELSE SandboxAttempt(src, attempt)

Finish(nextPc, ret) == result' = IF nextPc = "done" THEN ret ELSE "none"

\* no build_one.py process running, no project built
ProcessIdle ==
    /\ build_info = [p \in Projects |-> EmptyAttempt]
    /\ ALLVERSIONS = AllOk
    /\ args = NoArgs
    /\ pc = "idle"
    /\ custom_attempt = EmptyAttempt
    /\ local_build_info = EmptyAttempt
    /\ global_build_info = EmptyAttempt
    /\ idx = 1
    /\ attempted = << >>
    /\ consulted = {}
    /\ last = NoLast
    /\ result = "none"
    /\ builds = [p \in Projects |-> 0]
    /\ runs = 0

Init ==
    /\ localLedger = << >>
    /\ globalLedger \in GlobalLedgers
    /\ ProcessIdle
    /\ SandboxIdle
    /\ LookupIdle
    /\ WritersIdle
    /\ DriverIdle

\* main, build_one.py:435-497, up to the first statement of build_project
Invoke ==
    /\ pc = "idle"
    /\ runs < MaxRuns
    /\ \E a \in CliArgs, table \in TcEnvs :
        LET v == validate_and_create_custom_attempt(table, a.jdk, a.mvn, a.gradle, a.gradlew)
            refused == WantsCustom(a) /\ (a.try_all \/ v.exit)
            custom == IF WantsCustom(a) /\ ~refused THEN v.attempt ELSE EmptyAttempt
        IN  /\ args' = a
            /\ ALLVERSIONS' = table
            /\ custom_attempt' = custom
            /\ pc' = IF refused THEN "done" ELSE EntryPc(custom, a.try_all)
            /\ result' = IF refused THEN "exit1" ELSE "none"
    /\ runs' = runs + 1
    /\ UNCHANGED <<localLedger, globalLedger, build_info, local_build_info, global_build_info,
                   idx, attempted, consulted, last, builds>>
    /\ UNCHANGED <<sandboxVars, lookupVars, writerVars, driverVars>>

\* build_one.py:404-408
CustomStep ==
    /\ pc = "custom"
    /\ HostAttempt("custom", custom_attempt)
    /\ pc' = AfterCustom(last'.ret)
    /\ Finish(pc', last'.ret)
    /\ UNCHANGED <<globalLedger, ALLVERSIONS, args, custom_attempt, local_build_info,
                   global_build_info, idx, consulted, runs>>
    /\ UNCHANGED <<sandboxVars, lookupVars, writerVars, driverVars>>

\* build_one.py:413-415
LocalStep ==
    /\ pc = "local"
    /\ local_build_info' = get_build_info_from_csv(args.project_slug, localLedger)
    /\ consulted' = consulted \cup {"local"}
    /\ IF Truthy(local_build_info')
       THEN /\ Attempt("local", local_build_info')
            /\ pc' = AfterLedger(last'.ret, "global")
            /\ Finish(pc', last'.ret)
       ELSE /\ pc' = "global"
            /\ UNCHANGED <<localLedger, build_info, builds, last, attempted, result>>
    /\ UNCHANGED <<globalLedger, ALLVERSIONS, args, custom_attempt, global_build_info, idx, runs>>
    /\ UNCHANGED <<sandboxVars, lookupVars, writerVars, driverVars>>

\* build_one.py:418-420
GlobalStep ==
    /\ pc = "global"
    /\ global_build_info' = get_build_info_from_csv(args.project_slug, globalLedger)
    /\ consulted' = consulted \cup {"global"}
    /\ IF Truthy(global_build_info')
       THEN /\ Attempt("global", global_build_info')
            /\ pc' = AfterLedger(last'.ret, "defaults")
            /\ Finish(pc', last'.ret)
       ELSE /\ pc' = "defaults"
            /\ UNCHANGED <<localLedger, build_info, builds, last, attempted, result>>
    /\ UNCHANGED <<globalLedger, ALLVERSIONS, args, custom_attempt, local_build_info, idx, runs>>
    /\ UNCHANGED <<sandboxVars, lookupVars, writerVars, driverVars>>

\* build_one.py:427-432: one iteration of the for loop, and the return after the last
DefaultStep ==
    /\ pc = "defaults"
    /\ Attempt("default", ATTEMPTS[idx])
    /\ pc' = AfterDefault(last'.ret, idx)
    /\ Finish(pc', last'.ret)
    /\ idx' = idx + 1
    /\ UNCHANGED <<globalLedger, ALLVERSIONS, args, custom_attempt, local_build_info,
                   global_build_info, consulted, runs>>
    /\ UNCHANGED <<sandboxVars, lookupVars, writerVars, driverVars>>

\* the process exits; the files stay
Return ==
    /\ pc = "done"
    /\ pc' = "idle"
    /\ ALLVERSIONS' = AllOk
    /\ args' = NoArgs
    /\ custom_attempt' = EmptyAttempt
    /\ local_build_info' = EmptyAttempt
    /\ global_build_info' = EmptyAttempt
    /\ idx' = 1
    /\ attempted' = << >>
    /\ consulted' = {}
    /\ last' = NoLast
    /\ result' = "none"
    /\ UNCHANGED <<localLedger, globalLedger, build_info, builds, runs>>
    /\ UNCHANGED <<sandboxVars, lookupVars, writerVars, driverVars>>

Next == Invoke \/ CustomStep \/ LocalStep \/ GlobalStep \/ DefaultStep \/ Return

Spec == Init /\ [][Next]_vars

-----------------------------------------------------------------------------
(* Vocabulary of the properties *)

\* a build_project call is under way or has just returned
InSearch == pc # "idle" /\ result # "exit1"

Override == Truthy(custom_attempt)

LastAttempt == attempted[Len(attempted)]

\* the local ledger as this run's lookup saw it: failure rows never change a lookup,
\* and the one success row a run appends is appended by its last attempt
LedgerBeforeWin ==
    IF last.result = NEWLY_BUILT THEN SubSeq(localLedger, 1, Len(localLedger) - 1)
    ELSE localLedger

LocalRecord == get_build_info_from_csv(args.project_slug, LedgerBeforeWin)

GlobalRecord == get_build_info_from_csv(args.project_slug, globalLedger)

Entry(src, cand) == [src |-> src, cand |-> cand]

\* the nine default candidates, written out as the specification lists them
NineDefaults ==
    << [jdk |-> "8",  mvn |-> "3.5.0", gradle |-> NoKey,   gradlew |-> NoKey],
       [jdk |-> "17", mvn |-> "3.5.0", gradle |-> NoKey,   gradlew |-> NoKey],
       [jdk |-> "17", mvn |-> "3.9.8", gradle |-> NoKey,   gradlew |-> NoKey],
       [jdk |-> "8",  mvn |-> "3.9.8", gradle |-> NoKey,   gradlew |-> NoKey],
       [jdk |-> "17", mvn |-> NoKey,   gradle |-> "8.9",   gradlew |-> NoKey],
       [jdk |-> "8",  mvn |-> NoKey,   gradle |-> "7.6.4", gradlew |-> NoKey],
       [jdk |-> "8",  mvn |-> NoKey,   gradle |-> "6.8.2", gradlew |-> NoKey],
       [jdk |-> "8",  mvn |-> NoKey,   gradle |-> NoKey,   gradlew |-> "1"],
       [jdk |-> "17", mvn |-> NoKey,   gradle |-> NoKey,   gradlew |-> "1"] >>

\* local record, then global record, then the default list
LedgerThenDefaults ==
    (IF Truthy(LocalRecord) THEN << Entry("local", LocalRecord) >> ELSE << >>)
        \o (IF Truthy(GlobalRecord) THEN << Entry("global", GlobalRecord) >> ELSE << >>)
        \o [i \in 1..Len(NineDefaults) |-> Entry("default", NineDefaults[i])]

\* the attempts so far are the first ones of LedgerThenDefaults, in that order, and
\* every one before the latest has failed
FollowsOrder ==
    /\ Len(attempted) <= Len(LedgerThenDefaults)
    /\ \A i \in 1..Len(attempted) :
        /\ Entry(attempted[i].src, attempted[i].cand) = LedgerThenDefaults[i]
        /\ i < Len(attempted) => attempted[i].ret = "false"

-----------------------------------------------------------------------------
(* C1 *)

\* C1: with an explicit override exactly that candidate is attempted: no ledger is
\* looked up, no other candidate is attempted whether it succeeds or fails, and the
\* search returns what that one attempt returned.
C1_OverrideOnly ==
    (InSearch /\ Override) =>
        /\ consulted = {}
        /\ Len(attempted) <= 1
        /\ \A i \in 1..Len(attempted) :
            /\ attempted[i].src = "custom"
            /\ attempted[i].cand = [jdk |-> args.jdk, mvn |-> args.mvn, gradle |-> args.gradle,
                                    gradlew |-> IF args.gradlew THEN "1" ELSE NoKey]
        /\ pc = "done" => (Len(attempted) = 1 /\ result = attempted[1].ret)

\* an override run that failed although the global ledger holds a record to fall back on
C1_Witness ==
    /\ pc = "done"
    /\ Override
    /\ result = "false"
    /\ Truthy(GlobalRecord)
    /\ Len(attempted) = 1

-----------------------------------------------------------------------------
(* C2 *)

\* C2 as stated: without an override, every run attempts the local record, then the
\* global record, then the default list, each only after all earlier ones failed.
C2_OrderEveryRun == (InSearch /\ ~Override) => FollowsOrder

\* C2 amended: the same for every run without an override and without try_all.
C2_OrderUnlessTryAll == (InSearch /\ ~Override /\ ~args.try_all) => FollowsOrder

\* a run that tried the local record, the global record and a default entry
C2_Witness ==
    /\ InSearch
    /\ ~Override
    /\ ~args.try_all
    /\ Len(attempted) >= 3
    /\ attempted[1].src = "local"
    /\ attempted[2].src = "global"
    /\ attempted[3].src = "default"

-----------------------------------------------------------------------------
(* C3 *)

\* C3: with no ledger record for the project and every attempt failing, the nine
\* default candidates are attempted once each in the listed order, and the search
\* returns failure only after the ninth.  (A marker makes a host attempt succeed, so
\* the hypothesis that all attempts failed covers the claim's "no marker".)
C3_DefaultListExhaustion ==
    ( /\ InSearch
      /\ ~Override
      /\ ~Truthy(LocalRecord)
      /\ ~Truthy(GlobalRecord)
      /\ \A i \in 1..Len(attempted) : attempted[i].ret = "false" ) =>
        /\ Len(attempted) <= Len(NineDefaults)
        /\ \A i \in 1..Len(attempted) : attempted[i].cand = NineDefaults[i]
        /\ pc = "done" => (Len(attempted) = Len(NineDefaults) /\ result = "false")
        /\ pc # "done" => result = "none"

\* an exhausted search over empty ledgers, with no marker
C3_Witness ==
    /\ pc = "done"
    /\ ~Override
    /\ result = "false"
    /\ localLedger # << >> => \A i \in 1..Len(localLedger) : localLedger[i].status = "failure"
    /\ ~Truthy(GlobalRecord)
    /\ ~is_built(build_info, args.project_slug)
    /\ Len(attempted) = 9

-----------------------------------------------------------------------------
(* C4 *)

\* C4: first success wins: a successful attempt is the last attempt of its run, and
\* the run has returned success.
C4_FirstSuccessWins ==
    InSearch =>
        \A i \in 1..Len(attempted) :
            attempted[i].ret = "true" =>
                (i = Len(attempted) /\ pc = "done" /\ result = "true")

\* a run that succeeded on a default entry with later entries left untried
C4_Witness ==
    /\ pc = "done"
    /\ result = "true"
    /\ Len(attempted) >= 2
    /\ LastAttempt.src = "default"
    /\ LastAttempt.cand # NineDefaults[9]

-----------------------------------------------------------------------------
(* C5 *)

\* C5: once a build of the project has succeeded, every later attempt for it, in host
\* or sandboxed mode, returns AlreadySatisfied, runs no build command and creates no
\* sandbox.
C5_Idempotent ==
    [][ ( /\ pc \in {"custom", "local", "global", "defaults"}
          /\ attempted' # attempted
          /\ builds[args.project_slug] >= 1 ) =>
            ( /\ last'.result = ALREADY_BUILT
              /\ ~last'.launched
              /\ ~last'.created ) ]_vars

-----------------------------------------------------------------------------
(* C6 *)

\* the latest attempt ran a build command that exited zero
NewlySucceeded ==
    \/ last.mode = "host" /\ last.result = NEWLY_BUILT
    \/ last.mode = "sandbox" /\ last.ret = "true"

\* C6: when an attempt's build exits zero, in host or sandboxed mode, the winning
\* candidate is the success row at the end of the local ledger when the attempt returns.
C6_SuccessRecorded ==
    (InSearch /\ NewlySucceeded) =>
        /\ localLedger # << >>
        /\ localLedger[Len(localLedger)] = NewRow(args.project_slug, TRUE, LastAttempt.cand)

-----------------------------------------------------------------------------
(* C7 *)

\* C7: when a candidate attempt fails, in host or sandboxed mode, its failure row is at
\* the end of the local ledger before the next candidate is attempted.
C7_FailureRecorded ==
    (InSearch /\ last.mode # "none" /\ last.ret = "false") =>
        /\ localLedger # << >>
        /\ localLedger[Len(localLedger)] = NewRow(args.project_slug, FALSE, LastAttempt.cand)

-----------------------------------------------------------------------------
(* C8 *)

\* C8: a search without override ends in failure only after every candidate of its
\* sequence has been attempted, whatever made a candidate fail.
C8_FailureOnlyAfterAll ==
    (pc = "done" /\ ~Override /\ result \in {"false", RAISED}) =>
        Len(attempted) = (IF args.try_all THEN 0
                          ELSE (IF Truthy(LocalRecord) THEN 1 ELSE 0)
                                   + (IF Truthy(GlobalRecord) THEN 1 ELSE 0))
                             + Len(NineDefaults)

-----------------------------------------------------------------------------
(* C9 *)

\* C9: every candidate that is attempted, whatever its origin, has exactly one
\* build-tool selector.
C9_OneSelector ==
    \A i \in 1..Len(attempted) : SelectorCount(attempted[i].cand) = 1

-----------------------------------------------------------------------------
(* C10 *)

\* the state of every toolchain a candidate names: its JDK and its build tool
ReferencedToolchains(attempt) ==
    { Resolve(ALLVERSIONS, "jdks", attempt.jdk) }
        \cup (IF attempt.mvn # NoKey THEN { Resolve(ALLVERSIONS, "mvn", attempt.mvn) } ELSE {})
        \cup (IF attempt.gradle # NoKey
              THEN { Resolve(ALLVERSIONS, "gradle", attempt.gradle) } ELSE {})

\* C10: a host-mode attempt of a Maven, Gradle or wrapper candidate one of whose
\* toolchains is missing from the table, from the disk, or lacks its executable yields
\* Failed without launching the build command.
C10_ToolchainMissingFails ==
    ( /\ InSearch
      /\ last.mode = "host"
      /\ last.result # ALREADY_BUILT
      /\ SelectorCount(LastAttempt.cand) = 1
      /\ ReferencedToolchains(LastAttempt.cand) # {"ok"} ) =>
        (last.result = FAILED /\ ~last.launched)

-----------------------------------------------------------------------------
(* C11 *)

\* C11: a sandboxed attempt whose candidate names a toolchain that is missing from the
\* toolchain table fails (ToolchainMissing) and creates no sandbox.
C11_SandboxToolchainMissing ==
    ( /\ InSearch
      /\ last.mode = "sandbox"
      /\ "absent" \in ReferencedToolchains(LastAttempt.cand) ) =>
        (last.ret = "false" /\ ~last.created /\ ~last.launched)

-----------------------------------------------------------------------------
(* The sandboxed calls, one docker operation or pipeline stage per step:   *)
(* build_inside_container of scripts/build_one.py and                      *)
(* create_codeql_database_in_container of scripts/build_codeql_dbs.py,     *)
(* over the helpers of scripts/docker_utils.py                             *)

\* a docker API call returns or raises
DockerResults == {[raised |-> FALSE, code |-> 0], [raised |-> TRUE, code |-> 0]}

\* exec_in_container, docker_utils.py:98-120: the command's exit code, or the API raises
ExecResults ==
    {[raised |-> FALSE, code |-> 0], [raised |-> FALSE, code |-> 1], [raised |-> TRUE, code |-> 1]}

\* copy_dir_to_container, docker_utils.py:137-151
CopyInResults == {"ok", "FileNotFoundError", "APIError"}

\* pull_image, docker_utils.py:17-24
PullResults == {"ok", "ImageNotFound", "RuntimeError"}

\* copy_from_container, docker_utils.py:123-130: done, get_archive raises before anything
\* is written, or extractall raises after it has written some members
CopyOutResults == {"ok", "before", "partway"}

ensure_image_blind(local, pull) == "ok"

\* ensure_image, docker_utils.py:27-33: "ok" or the exception of the pull
ensure_image(local, pull) == IF local THEN "ok" ELSE pull

\* what the image store answered: the image is there, or how the pull went
ImageAnswer(local, pull) == IF local THEN "local" ELSE IF pull = "ok" THEN "pulled" ELSE pull

\* the sandboxed build attempts tried: the attempt's first tool key picks the command;
\* the project has an entry in the custom build command table or not
AttemptJobs ==
    [kind : {"attempt"}, slug : Projects, selector : {"mvn", "gradle", "gradlew", "none"},
     registered : {FALSE}, patch : {FALSE}, custom : BOOLEAN]

\* the pipeline runs tried: the slug is in project_info.csv or not, data/patches/<slug>.patch
\* exists or not, the slug has an entry in custom_build_commands.json or not
PipelineJobs ==
    [kind : {"pipeline"}, slug : Projects, selector : {"none"},
     registered : BOOLEAN, patch : BOOLEAN, custom : BOOLEAN]

Event(op, arg, r) == [op |-> op, arg |-> arg, raised |-> r.raised, code |-> r.code]

Log(op, arg, r) == events' = Append(events, Event(op, arg, r))

Leave_nofinally(value) == pending' = value /\ spc' = "done"

\* leave the try body with an exception or a return value: the finally block is next
Leave(value) == pending' = value /\ spc' = "remove"

\* the `if code != 0: raise RuntimeError` after a stage command,
\* build_codeql_dbs.py:171-174, 189-192, 209-214
AfterStage_unchecked(r, next, error) ==
    IF r.raised THEN Leave("APIError")
    ELSE spc' = next /\ UNCHANGED pending

AfterStage_swallowed(r, next, error) ==
    IF r.raised THEN Leave("APIError")
    ELSE IF r.code # 0 THEN Leave("ok")
    ELSE spc' = next /\ UNCHANGED pending

AfterStage(r, next, error) ==
    IF r.raised THEN Leave("APIError")
    ELSE IF r.code # 0 THEN Leave(error)
    ELSE spc' = next /\ UNCHANGED pending

\* the finally block's `except Exception: pass`, build_codeql_dbs.py:223-224,
\* build_one.py:397-398: the call ends with what its body ended with
AfterRemove_propagating(value, r) == IF r.raised THEN "APIError" ELSE value

AfterRemove(value, r) == value

AfterExtract_swallowed(x) == "ok"

\* build_codeql_dbs.py:218-219: an exception of copy_from_container leaves the try body,
\* its return lets the function run to its end
AfterExtract(x) == IF x = "ok" THEN "ok" ELSE "ExtractFailed"

\* a call starts
SandboxInvoke ==
    /\ spc = "idle"
    /\ \E j \in AttemptJobs \cup PipelineJobs : job' = j
    /\ spc' = "ensure_image"
    /\ UNCHANGED <<images, container, events, pending, outcome, host_db>>
    /\ UNCHANGED <<searchVars, lookupVars, writerVars, driverVars>>

\* ensure_image(image), build_one.py:378, build_codeql_dbs.py:121: outside the try
EnsureImageStep ==
    /\ spc = "ensure_image"
    /\ \E pull \in PullResults :
        LET e == ensure_image(images[job.slug], pull)
        IN  /\ Log("ensure_image", ImageAnswer(images[job.slug], pull),
                    [raised |-> e # "ok", code |-> 0])
            /\ images' = [images EXCEPT ![job.slug] = (e = "ok")]
            /\ IF e = "ok" THEN spc' = "create" /\ UNCHANGED outcome
               ELSE spc' = "done" /\ outcome' = e
    /\ UNCHANGED <<job, container, pending, host_db>>
    /\ UNCHANGED <<searchVars, lookupVars, writerVars, driverVars>>

\* create_container, docker_utils.py:36-55, called at build_one.py:379 and
\* build_codeql_dbs.py:147: outside the try
CreateStep ==
    /\ spc = "create"
    /\ \E pull \in PullResults, r \in DockerResults :
        LET e == ensure_image(images[job.slug], pull)
        IN  /\ images' = [images EXCEPT ![job.slug] = (e = "ok")]
            /\ IF e # "ok"
               THEN /\ Log("ensure_image", ImageAnswer(images[job.slug], pull),
                            [raised |-> TRUE, code |-> 0])
                    /\ spc' = "done" /\ outcome' = e
                    /\ UNCHANGED container
               ELSE /\ events' = events \o
                            << Event("ensure_image", ImageAnswer(images[job.slug], pull),
                                     [raised |-> FALSE, code |-> 0]),
                               Event("create", "", r) >>
                    /\ IF r.raised
                       THEN spc' = "done" /\ outcome' = "APIError" /\ UNCHANGED container
                       ELSE spc' = "start" /\ container' = "created" /\ UNCHANGED outcome
    /\ UNCHANGED <<job, pending, host_db>>
    /\ UNCHANGED <<searchVars, lookupVars, writerVars, driverVars>>

\* container.start(), build_one.py:381, build_codeql_dbs.py:149
StartStep ==
    /\ spc = "start"
    /\ \E r \in DockerResults :
        /\ Log("start", "", r)
        /\ IF r.raised THEN Leave("APIError") /\ UNCHANGED container
           ELSE /\ container' = "running"
                /\ spc' = IF job.kind = "attempt" THEN "exec" ELSE "inject"
                /\ UNCHANGED pending
    /\ UNCHANGED <<job, images, outcome, host_db>>
    /\ UNCHANGED <<searchVars, lookupVars, writerVars, driverVars>>

\* build_inside_container, build_one.py:382-393: the build command of the attempt
ExecStep ==
    /\ spc = "exec"
    /\ IF job.selector = "none"
       THEN Leave("false") /\ UNCHANGED events
       ELSE \E r \in ExecResults :
                /\ Log("exec", job.selector, r)
                /\ Leave(IF r.raised THEN "APIError" ELSE IF r.code = 0 THEN "true" ELSE "false")
    /\ UNCHANGED <<job, images, container, outcome, host_db>>
    /\ UNCHANGED <<searchVars, lookupVars, writerVars, driverVars>>

\* build_codeql_dbs.py:152-153: the analysis tool is copied in, /out is made (its exit
\* code is not looked at)
InjectStep ==
    /\ spc = "inject"
    /\ \E c \in CopyInResults, r \in ExecResults :
        IF c # "ok"
        THEN Log("copy_codeql", "", [raised |-> TRUE, code |-> 0]) /\ Leave(c)
        ELSE /\ events' = events \o << Event("copy_codeql", "", [raised |-> FALSE, code |-> 0]),
                                       Event("mkdir", "", r) >>
             /\ IF r.raised THEN Leave("APIError")
                ELSE spc' = "repo_info" /\ UNCHANGED pending
    /\ UNCHANGED <<job, images, container, outcome, host_db>>
    /\ UNCHANGED <<searchVars, lookupVars, writerVars, driverVars>>

\* get_repo_info_from_project_info, build_codeql_dbs.py:136-145, called at 156
RepoInfoStep ==
    /\ spc = "repo_info"
    /\ IF job.registered THEN spc' = "fetch" /\ UNCHANGED pending
       ELSE Leave("SlugNotFound")
    /\ UNCHANGED <<job, images, container, events, outcome, host_db>>
    /\ UNCHANGED <<searchVars, lookupVars, writerVars, driverVars>>

fetch_cmd_resetlast == << "init", "fetch_pinned", "fetch_tips", "reset_hard" >>

\* fetch_cmd, build_codeql_dbs.py:157-163, an && chain: a fresh repository with its
\* remote (rm -rf, mkdir, cd, git init, git remote add), git fetch --depth 1 of the
\* pinned commit, git reset --hard FETCH_HEAD, git fetch --depth 1 of the branch tips
fetch_cmd == << "init", "fetch_pinned", "reset_hard", "fetch_tips" >>

\* the events of the commands of the chain that ran: all of them with exit code zero,
\* or, when `failed`, the last of them with a non-zero one
ChainEvents(n, failed) ==
    [i \in 1..n |-> Event("git", fetch_cmd[i],
                          [raised |-> FALSE, code |-> IF failed /\ i = n THEN 1 ELSE 0])]

\* how the chain can go for a result of exec_in_container: exit code zero is every
\* command exiting zero, a non-zero one is that of the first command exiting non-zero,
\* and the docker API can raise wherever the chain has got to
ChainRuns(r) ==
    IF r.raised THEN {ChainEvents(n, FALSE) : n \in 0..Len(fetch_cmd)}
    ELSE IF r.code = 0 THEN {ChainEvents(Len(fetch_cmd), FALSE)}
    ELSE {ChainEvents(n, TRUE) : n \in 1..Len(fetch_cmd)}

\* build_codeql_dbs.py:157-174
FetchStep ==
    /\ spc = "fetch"
    /\ \E r \in ExecResults : \E chain \in ChainRuns(r) :
        /\ events' = (events \o chain) \o << Event("fetch", "", r) >>
        /\ AfterStage(r, "patch", "FetchFailed")
    /\ UNCHANGED <<job, images, container, outcome, host_db>>
    /\ UNCHANGED <<searchVars, lookupVars, writerVars, driverVars>>

patch_exists_always(j) == TRUE

\* os.path.exists(patch_file_host), build_codeql_dbs.py:177-179
patch_exists(j) == j.patch

\* build_codeql_dbs.py:176-194
PatchStep ==
    /\ spc = "patch"
    /\ IF patch_exists(job)
       THEN \E c \in CopyInResults, r \in ExecResults :
                IF c # "ok"
                THEN Log("copy_patches", "", [raised |-> TRUE, code |-> 0]) /\ Leave(c)
                ELSE /\ events' = events \o
                            << Event("copy_patches", "", [raised |-> FALSE, code |-> 0]),
                               Event("patch", "", r) >>
                     /\ AfterStage(r, "build", "PatchFailed")
       ELSE spc' = "build" /\ UNCHANGED <<events, pending>>
    /\ UNCHANGED <<job, images, container, outcome, host_db>>
    /\ UNCHANGED <<searchVars, lookupVars, writerVars, driverVars>>

\* build_codeql_dbs.py:196-214
BuildStep ==
    /\ spc = "build"
    /\ \E r \in ExecResults :
        /\ Log("build", IF job.custom THEN "custom" ELSE "autobuild", r)
        /\ AfterStage(r, "extract", "BuildFailed")
    /\ UNCHANGED <<job, images, container, outcome, host_db>>
    /\ UNCHANGED <<searchVars, lookupVars, writerVars, driverVars>>

\* build_codeql_dbs.py:216-219 over copy_from_container, docker_utils.py:123-130
ExtractStep ==
    /\ spc = "extract"
    /\ \E x \in CopyOutResults :
        /\ Log("extract", "", [raised |-> x # "ok", code |-> 0])
        /\ host_db' = IF x = "ok" THEN "complete" ELSE IF x = "partway" THEN "partial" ELSE host_db
        /\ Leave(AfterExtract(x))
    /\ UNCHANGED <<job, images, container, outcome>>
    /\ UNCHANGED <<searchVars, lookupVars, writerVars, driverVars>>

\* the finally block, build_codeql_dbs.py:220-224, build_one.py:394-398
RemoveStep ==
    /\ spc = "remove"
    /\ \E r \in DockerResults :
        /\ Log("remove", "", r)
        /\ container' = IF r.raised THEN "stuck" ELSE "removed"
        /\ outcome' = AfterRemove(pending, r)
    /\ spc' = "done"
    /\ UNCHANGED <<job, images, pending, host_db>>
    /\ UNCHANGED <<searchVars, lookupVars, writerVars, driverVars>>

\* the caller goes on; the image store stays
SandboxReturn ==
    /\ spc = "done"
    /\ job' = NoJob
    /\ spc' = "idle"
    /\ container' = "none"
    /\ events' = << >>
    /\ pending' = "none"
    /\ outcome' = "none"
    /\ host_db' = "absent"
    /\ UNCHANGED images
    /\ UNCHANGED <<searchVars, lookupVars, writerVars, driverVars>>

InitSandbox ==
    /\ localLedger = << >>
    /\ globalLedger = << >>
    /\ ProcessIdle
    /\ SandboxIdle
    /\ LookupIdle
    /\ WritersIdle
    /\ DriverIdle

NextSandbox ==
    \/ SandboxInvoke \/ EnsureImageStep \/ CreateStep \/ StartStep \/ ExecStep
    \/ InjectStep \/ RepoInfoStep \/ FetchStep \/ PatchStep \/ BuildStep
    \/ ExtractStep \/ RemoveStep \/ SandboxReturn

SpecSandbox == InitSandbox /\ [][NextSandbox]_vars

-----------------------------------------------------------------------------
(* Vocabulary of the sandbox properties *)

\* the call has returned or raised
Finished == spc = "done"

\* event i is the operation op and it went through: no exception, exit code zero
Went(i, op) == events[i].op = op /\ ~events[i].raised /\ events[i].code = 0

\* event i is the stage command op and it exited non-zero
ExitedNonZero(i, op) == events[i].op = op /\ ~events[i].raised /\ events[i].code # 0

StageOps == {"fetch", "patch", "build", "extract"}

Rank(op) == IF op = "fetch" THEN 1 ELSE IF op = "patch" THEN 2 ELSE IF op = "build" THEN 3 ELSE 4

StageErrors == {"FetchFailed", "PatchFailed", "BuildFailed"}

-----------------------------------------------------------------------------
(* C12 *)

\* C12: every sandbox created by a sandboxed build attempt or pipeline run has its removal
\* invoked before the attempt or run finishes, whatever the exit path.
C12_RemovalInvoked ==
    Finished =>
        \A i \in 1..Len(events) :
            Went(i, "create") => \E j \in (i + 1)..Len(events) : events[j].op = "remove"

\* a run that created its sandbox and raised in mid-body (registry lookup) has finished
C12_Witness ==
    /\ Finished
    /\ outcome = "SlugNotFound"
    /\ \E i \in 1..Len(events) : Went(i, "create")

-----------------------------------------------------------------------------
(* C13 *)

\* C13: a failing sandbox removal never changes the outcome: the call returns or raises
\* exactly what its body ended with, and the removal's failure is not propagated.
C13_RemovalFailureSwallowed ==
    (Finished /\ container \in {"removed", "stuck"}) => outcome = pending

\* a run whose fetch stage failed and whose sandbox removal failed as well
C13_Witness ==
    /\ Finished
    /\ container = "stuck"
    /\ outcome = "FetchFailed"

-----------------------------------------------------------------------------
(* C14 *)

\* C14: the stages run in the order fetch, patch (when the project has one), build,
\* extract: patch never before fetch exited zero, build never before fetch (and patch
\* when present) exited zero, extract never before build exited zero.
C14_StageOrder ==
    \A i \in 1..Len(events) :
        /\ events[i].op = "patch" => \E j \in 1..(i - 1) : Went(j, "fetch")
        /\ events[i].op = "build" =>
            /\ \E j \in 1..(i - 1) : Went(j, "fetch")
            /\ job.patch => \E j \in 1..(i - 1) : Went(j, "patch")
        /\ events[i].op = "extract" => \E j \in 1..(i - 1) : Went(j, "build")
        /\ \A j \in 1..(i - 1) :
            (events[i].op \in StageOps /\ events[j].op \in StageOps) =>
                Rank(events[j].op) < Rank(events[i].op)

\* a run of a patched project that got as far as extraction
C14_Witness ==
    /\ job.patch
    /\ \E i \in 1..Len(events) : events[i].op = "extract"

-----------------------------------------------------------------------------
(* C15 *)

\* C15: a stage failure is fatal: after fetch, patch or build exits non-zero no later
\* stage is executed, the run ends with the stage's error, and no stage is executed twice.
C15_StageFailureFatal ==
    /\ \A i \in 1..Len(events) : \A op \in {"fetch", "patch", "build"} :
        ExitedNonZero(i, op) =>
            /\ \A j \in (i + 1)..Len(events) : events[j].op \notin StageOps
            /\ spc \in {"remove", "done"}
            /\ Finished => outcome \in StageErrors
    /\ \A i, j \in 1..Len(events) :
        (i # j /\ events[i].op \in StageOps) => events[j].op # events[i].op

\* a run whose patch stage exited non-zero has finished
C15_Witness ==
    /\ Finished
    /\ \E i \in 1..Len(events) : ExitedNonZero(i, "patch")

-----------------------------------------------------------------------------
(* C16 *)

\* C16: a failed pipeline run leaves no artifact: when any stage fails, extraction
\* failing part-way included, the host destination holds no artifact directory of that
\* run, partial or complete.
C16_NoArtifactOnFailure ==
    (Finished /\ job.kind = "pipeline" /\ outcome # "ok") => host_db = "absent"

-----------------------------------------------------------------------------
(* C17 *)

\* C17: a pipeline run that reports success has copied the artifact to the host
\* destination before the sandbox was removed; when the copy-out fails the run does not
\* report success.
C17_SuccessHasArtifact ==
    (Finished /\ job.kind = "pipeline") =>
        /\ outcome = "ok" =>
            /\ host_db = "complete"
            /\ \E i \in 1..Len(events) :
                /\ Went(i, "extract")
                /\ \A j \in 1..i : events[j].op # "remove"
        /\ (\E i \in 1..Len(events) : events[i].op = "extract" /\ events[i].raised) =>
                outcome # "ok"

\* a run that reported success
C17_Witness ==
    /\ Finished
    /\ job.kind = "pipeline"
    /\ outcome = "ok"

-----------------------------------------------------------------------------
(* The ledger operations taken on their own: save_local_build_result and   *)
(* get_build_info_from_csv of scripts/build_one.py, load_build_info of     *)
(* scripts/build_codeql_dbs.py, applied to ledgers of up to MaxRows rows   *)

\* the candidates recorded
RecordedAttempts == {Mvn("8", "3.5.0"), Gradlew("17", "1")}

\* the global ledgers tried: none, successes and failures of both projects, failures
\* only, and two success rows of one project of which the first is what a local row can be
LookupGlobals ==
    { << >>,
      << Row("p1", "failure", "8", "3.5.0", "n/a", "n/a"),
         Row("p1", "success", "17", "3.9.8", "n/a", "n/a"),
         Row("p2", "success", "8", "n/a", "7.6.4", "n/a") >>,
      << Row("p1", "failure", "8", "3.5.0", "n/a", "n/a"),
         Row("p2", "failure", "17", "n/a", "8.9", "n/a") >>,
      << Row("p1", "success", "8", "3.5.0", "n/a", "n/a"),
         Row("p1", "success", "17", "3.5.0", "n/a", "n/a") >> }

\* save_local_build_result(project_slug, success, attempt), build_one.py:69-97
RecordAttempt ==
    /\ Len(localLedger) < MaxRows
    /\ \E p \in Projects, success \in BOOLEAN, attempt \in RecordedAttempts :
        /\ localLedger' = save_local_build_result(localLedger, p, success, attempt)
        /\ call' = [op |-> "record", slug |-> p, success |-> success, attempt |-> attempt,
                    ret |-> EmptyAttempt]
    /\ merged' = << >>
    /\ UNCHANGED <<globalLedger, build_info, ALLVERSIONS, args, pc, custom_attempt,
                   local_build_info, global_build_info, idx, attempted, consulted, last,
                   result, builds, runs>>
    /\ UNCHANGED <<sandboxVars, writerVars, driverVars>>

\* get_build_info_from_csv(project_slug, csv_path) on either ledger, build_one.py:100-131
GetBuildInfo ==
    /\ \E p \in Projects, which \in {"get_local", "get_global"} :
        call' = [op |-> which, slug |-> p, success |-> FALSE, attempt |-> EmptyAttempt,
                 ret |-> get_build_info_from_csv(
                             p, IF which = "get_local" THEN localLedger ELSE globalLedger)]
    /\ merged' = << >>
    /\ UNCHANGED <<searchVars, sandboxVars, writerVars, driverVars>>

\* load_build_info(), build_codeql_dbs.py:259-282
LoadBuildInfo ==
    /\ merged' = load_build_info(localLedger, globalLedger)
    /\ call' = [NoCall EXCEPT !.op = "load"]
    /\ UNCHANGED <<searchVars, sandboxVars, writerVars, driverVars>>

InitLookup ==
    /\ localLedger = << >>
    /\ globalLedger \in LookupGlobals
    /\ ProcessIdle
    /\ SandboxIdle
    /\ LookupIdle
    /\ WritersIdle
    /\ DriverIdle

NextLookup == RecordAttempt \/ GetBuildInfo \/ LoadBuildInfo

SpecLookup == InitLookup /\ [][NextLookup]_vars

-----------------------------------------------------------------------------
(* Vocabulary of the ledger properties *)

\* the success rows of project p in a ledger, by position
SuccessRows(rows, p) ==
    {i \in 1..Len(rows) : rows[i].project_slug = p /\ rows[i].status = "success"}

\* the positions of project p in the merged list
MergedFor(p) == {i \in 1..Len(merged) : merged[i].project_slug = p}

-----------------------------------------------------------------------------
(* C18 *)

\* C18: local precedence: for a project with a success row in the local ledger the merged
\* lookup returns a local row, never the global one; a global success row is returned only
\* when the local ledger has no success row of the project.
C18_LocalPrecedence ==
    call.op = "load" =>
        \A p \in Projects :
            /\ Cardinality(MergedFor(p)) <= 1
            /\ SuccessRows(localLedger, p) # {} =>
                \E i \in MergedFor(p) : \E k \in SuccessRows(localLedger, p) :
                    merged[i] = localLedger[k]
            /\ (SuccessRows(localLedger, p) = {} /\ SuccessRows(globalLedger, p) # {}) =>
                \E i \in MergedFor(p) : \E k \in SuccessRows(globalLedger, p) :
                    merged[i] = globalLedger[k]
            /\ \A i \in MergedFor(p) :
                (\A k \in SuccessRows(localLedger, p) : merged[i] # localLedger[k]) =>
                    SuccessRows(localLedger, p) = {}

\* the ledgers disagree about p1: a local success row, and a global success row with
\* other content
C18_Witness ==
    /\ call.op = "load"
    /\ SuccessRows(localLedger, "p1") # {}
    /\ \E g \in SuccessRows(globalLedger, "p1") :
        \A k \in SuccessRows(localLedger, "p1") : globalLedger[g] # localLedger[k]

-----------------------------------------------------------------------------
(* C19 *)

\* what a lookup of either kind returns comes from success rows only
ReturnsSuccessOnly ==
    /\ call.op = "load" =>
        /\ \A i \in 1..Len(merged) :
            /\ merged[i].status = "success"
            /\ \/ \E k \in 1..Len(localLedger) : merged[i] = localLedger[k]
               \/ \E k \in 1..Len(globalLedger) : merged[i] = globalLedger[k]
        /\ \A p \in Projects :
            (SuccessRows(localLedger, p) = {} /\ SuccessRows(globalLedger, p) = {}) =>
                MergedFor(p) = {}
    /\ call.op \in {"get_local", "get_global"} =>
        LET rows == IF call.op = "get_local" THEN localLedger ELSE globalLedger
        IN  /\ Truthy(call.ret) =>
                \E k \in SuccessRows(rows, call.slug) : call.ret = RowAttempt(rows[k])
            /\ SuccessRows(rows, call.slug) = {} => call.ret = EmptyAttempt

\* recording a failure leaves every lookup as it was
FailureRowInvisible ==
    (call'.op = "record" /\ ~call'.success /\ localLedger' # localLedger) =>
        /\ load_build_info(localLedger', globalLedger') = load_build_info(localLedger, globalLedger)
        /\ \A p \in Projects :
            get_build_info_from_csv(p, localLedger') = get_build_info_from_csv(p, localLedger)

-----------------------------------------------------------------------------
(* C20 *)

\* C20: save_local_build_result appends exactly one row: afterwards the local ledger is
\* the previous rows, unchanged and in the same order, followed by one row carrying the
\* project, the status and the candidate's fields.
C20_AppendsOneRow ==
    [][(localLedger' # localLedger \/ (call'.op = "record" /\ call' # call)) =>
        /\ call'.op = "record"
        /\ Len(localLedger') = Len(localLedger) + 1
        /\ \A i \in 1..Len(localLedger) : localLedger'[i] = localLedger[i]
        /\ LET row == localLedger'[Len(localLedger')]
               cell(v) == IF v = NoKey THEN "n/a" ELSE v
           IN  /\ row.project_slug = call'.slug
               /\ row.status = (IF call'.success THEN "success" ELSE "failure")
               /\ row.jdk_version = cell(call'.attempt.jdk)
               /\ row.mvn_version = cell(call'.attempt.mvn)
               /\ row.gradle_version = cell(call'.attempt.gradle)
               /\ row.use_gradlew = cell(call'.attempt.gradlew)]_vars

\* a row has been appended to a ledger that held rows already
C20_Witness ==
    /\ call.op = "record"
    /\ Len(localLedger) = MaxRows

-----------------------------------------------------------------------------
(* C29 *)

\* C29: ledger round trip: a well-formed candidate recorded as a success with
\* save_local_build_result is read back by get_build_info_from_csv as an equal candidate:
\* same JDK, same single selector, same selector value, the wrapper flag included.
C29_RoundTrip ==
    ( /\ call.op = "record"
      /\ call.success
      /\ SuccessRows(localLedger, call.slug) = {Len(localLedger)} ) =>
        get_build_info_from_csv(call.slug, localLedger) = call.attempt

-----------------------------------------------------------------------------
(* C30 *)

\* C30: after any sequence of build_project invocations the local ledger holds at most one
\* success row per project, and a project has a success row exactly when its marker exists.
C30_OneSuccessRowIffMarker ==
    \A p \in Projects :
        /\ Cardinality(SuccessRows(localLedger, p)) <= 1
        /\ SuccessRows(localLedger, p) # {} <=> is_built(build_info, p)

\* a run has found its project built by an earlier run: the marker and one success row
C30_Witness ==
    /\ last.result = ALREADY_BUILT
    /\ Cardinality(SuccessRows(localLedger, args.project_slug)) = 1
    /\ is_built(build_info, args.project_slug)

-----------------------------------------------------------------------------
(* C24 *)

\* C24: the custom build command table is consulted by the search and by the pipeline:
\* with a custom command registered for the project the build step of an attempt and the
\* build stage of a pipeline run invoke that command, and without one both use the default.
C24_CustomCommandBoth ==
    \A i \in 1..Len(events) :
        events[i].op \in {"exec", "build"} => (job.custom <=> events[i].arg = "custom")

-----------------------------------------------------------------------------
(* C26 *)

\* position of the git command c among the events, 0 when it did not run
GitAt(c) ==
    IF \E i \in 1..Len(events) : events[i].op = "git" /\ events[i].arg = c
    THEN CHOOSE i \in 1..Len(events) : events[i].op = "git" /\ events[i].arg = c
    ELSE 0

\* the git commands ran in the order of `order`, each after the one before it exited zero
RanInOrder(order) ==
    \A k \in 1..Len(order) :
        GitAt(order[k]) # 0 =>
            /\ k > 1 => (GitAt(order[k - 1]) # 0 /\ GitAt(order[k - 1]) < GitAt(order[k])
                         /\ events[GitAt(order[k - 1])].code = 0)
            /\ \A j \in 1..Len(events) :
                (events[j].op = "git" /\ events[j].arg = order[k]) => j = GitAt(order[k])

\* git's FETCH_HEAD and the checked-out revision after the first n events: a fetch that
\* exits zero sets FETCH_HEAD, reset --hard FETCH_HEAD checks FETCH_HEAD out
RECURSIVE GitState(_)
GitState(n) ==
    IF n = 0 THEN [fetch_head |-> "none", head |-> "none"]
    ELSE LET g == GitState(n - 1)
             e == events[n]
         IN  IF e.op # "git" \/ e.code # 0 THEN g
             ELSE IF e.arg = "init" THEN [fetch_head |-> "none", head |-> "none"]
             ELSE IF e.arg = "fetch_pinned" THEN [g EXCEPT !.fetch_head = "pinned"]
             ELSE IF e.arg = "fetch_tips" THEN [g EXCEPT !.fetch_head = "tips"]
             ELSE [g EXCEPT !.head = g.fetch_head]

\* the fetch stage has exited zero
FetchWent == \E i \in 1..Len(events) : Went(i, "fetch")

\* C26 as stated: the fetch stage re-initialises the workspace, fetches the pinned
\* revision, fetches the branch tips and then hard-resets; when it exits zero the working
\* tree is at the pinned revision.
C26_ResetAfterTips ==
    /\ RanInOrder(<< "init", "fetch_pinned", "fetch_tips", "reset_hard" >>)
    /\ FetchWent => GitState(Len(events)).head = "pinned"

\* C26, amended: the fetch stage re-initialises the workspace, fetches the pinned revision,
\* hard-resets to it and then fetches the branch tips; when it exits zero the working tree
\* is at the pinned revision.
C26_ResetBeforeTips ==
    /\ RanInOrder(<< "init", "fetch_pinned", "reset_hard", "fetch_tips" >>)
    /\ FetchWent => GitState(Len(events)).head = "pinned"

\* a fetch stage that exited zero
C26_Witness ==
    /\ FetchWent
    /\ GitAt("fetch_tips") # 0

-----------------------------------------------------------------------------
(* C27 *)

\* the number of events of operation op
Count(op) == Cardinality({i \in 1..Len(events) : events[i].op = op})

\* C27: the patch stage depends on the host patch file alone: without one the run goes
\* from a successful fetch to build with nothing injected and no patch command, and that
\* is no failure; with one the patch is injected and applied exactly once between fetch
\* and build, and a non-zero apply ends the run before build.
C27_PatchConditional ==
    /\ ~job.patch =>
        /\ Count("copy_patches") = 0 /\ Count("patch") = 0
        /\ FetchWent => (spc \notin {"remove", "done"} \/ Count("build") = 1)
    /\ job.patch =>
        /\ Count("copy_patches") <= 1 /\ Count("patch") <= 1
        /\ \A i \in 1..Len(events) :
            /\ events[i].op \in {"copy_patches", "patch"} =>
                \E j \in 1..(i - 1) : Went(j, "fetch")
            /\ events[i].op = "build" =>
                \E j, k \in 1..(i - 1) : j < k /\ Went(j, "copy_patches") /\ Went(k, "patch")
            /\ ExitedNonZero(i, "patch") => (Count("build") = 0 /\ spc \in {"remove", "done"})

\* a run of a project without a patch file has reported success
C27_Witness ==
    /\ Finished
    /\ job.kind = "pipeline"
    /\ ~job.patch
    /\ outcome = "ok"

-----------------------------------------------------------------------------
(* C28 *)

\* the image store had the image or the pull brought it
Available(i) == events[i].op = "ensure_image" /\ events[i].arg \in {"local", "pulled"}

\* C28: a sandbox is created only from a locally available image: the image is looked up
\* and pulled when absent before the creation, and when it is still unavailable after the
\* pull the attempt or run ends with a fatal error and no sandbox is created.
C28_ImageBeforeCreate ==
    \A i \in 1..Len(events) :
        /\ events[i].op = "create" => (i > 1 /\ Available(i - 1))
        /\ (events[i].op = "ensure_image" /\ ~Available(i)) =>
            /\ i = Len(events)
            /\ Count("create") = 0
            /\ container = "none"
            /\ Finished
            /\ outcome \in {"ImageNotFound", "RuntimeError"}

\* the image was absent and the pull did not find it
C28_Witness ==
    /\ Finished
    /\ outcome = "ImageNotFound"

-----------------------------------------------------------------------------
(* save_local_build_result of scripts/build_one.py statement by statement, *)
(* called by one build_one.py process per project; the processes run side  *)
(* by side on the one file data/build-info/build_info_local.csv and any of *)
(* them can be killed                                                      *)

\* rows written from the start of a file that holds `file`: what lies beyond them stays
\* (rows taken to be of one length in bytes)
Overwrite(file, rows) == rows \o SubSeq(file, Len(rows) + 1, Len(file))

\* the rows of project p, in file order
RECURSIVE RowsOf(_, _)
RowsOf(rows, p) ==
    IF rows = << >> THEN << >>
    ELSE (IF Head(rows).project_slug = p THEN << Head(rows) >> ELSE << >>) \o RowsOf(Tail(rows), p)

\* the variables no save_local_build_result call touches
WriterFrame ==
    UNCHANGED <<globalLedger, build_info, ALLVERSIONS, args, pc, custom_attempt,
                local_build_info, global_build_info, idx, attempted, consulted, last,
                result, builds, runs, sandboxVars, lookupVars, driverVars>>

\* build_one.py:74-91: the data rows are read and the new row is appended in memory
ReadStep(w) ==
    /\ wpc[w] = "idle"
    /\ Len(wlog[w]) < MaxCalls
    /\ \E success \in BOOLEAN, attempt \in RecordedAttempts :
        wbuf' = [wbuf EXCEPT ![w] =
                    [old  |-> localLedger,
                     rows |-> save_local_build_result(localLedger, w, success, attempt)]]
    /\ wpc' = [wpc EXCEPT ![w] = "read"]
    /\ UNCHANGED <<localLedger, wlog>>
    /\ WriterFrame

\* build_one.py:94: open(build_result_path, 'w') truncates the file
OpenStep(w) ==
    /\ wpc[w] = "read"
    /\ localLedger' = << >>
    /\ wpc' = [wpc EXCEPT ![w] = "opened"]
    /\ UNCHANGED <<wbuf, wlog>>
    /\ WriterFrame

\* build_one.py:95-97: header and rows are written, the file is closed, the call returns
WriteStep(w) ==
    /\ wpc[w] = "opened"
    /\ localLedger' = Overwrite(localLedger, wbuf[w].rows)
    /\ wlog' = [wlog EXCEPT ![w] = Append(@, wbuf[w].rows[Len(wbuf[w].rows)])]
    /\ wpc' = [wpc EXCEPT ![w] = "idle"]
    /\ UNCHANGED wbuf
    /\ WriterFrame

\* the process is killed inside the call: before the open, or after it with some of the
\* rows flushed
CrashStep(w) ==
    /\ wpc[w] \in {"read", "opened"}
    /\ IF wpc[w] = "read" THEN UNCHANGED localLedger
       ELSE \E k \in 0..(Len(wbuf[w].rows) - 1) :
                localLedger' = Overwrite(localLedger, SubSeq(wbuf[w].rows, 1, k))
    /\ wpc' = [wpc EXCEPT ![w] = "crashed"]
    /\ UNCHANGED <<wbuf, wlog>>
    /\ WriterFrame

InitWriters ==
    /\ localLedger = << >>
    /\ globalLedger = << >>
    /\ ProcessIdle
    /\ SandboxIdle
    /\ LookupIdle
    /\ WritersIdle
    /\ DriverIdle

NextWriters ==
    \E w \in Projects : ReadStep(w) \/ OpenStep(w) \/ WriteStep(w) \/ CrashStep(w)

SpecWriters == InitWriters /\ [][NextWriters]_vars

-----------------------------------------------------------------------------
(* C21 *)

\* no other worker has called save_local_build_result
Alone(w) == \A v \in Projects \ {w} : wpc[v] = "idle" /\ wlog[v] = << >>

\* C21: a crash at any point of recordAttempt leaves the local ledger on disk with its
\* complete previous content or its complete new content: never truncated or half
\* written, no recorded row lost.
C21_CrashAtomic ==
    \A w \in Projects :
        (wpc[w] = "crashed" /\ Alone(w)) =>
            (localLedger = wbuf[w].old \/ localLedger = wbuf[w].rows)

-----------------------------------------------------------------------------
(* C22 *)

\* C22: two build_project runs for different projects share no mutable state: whatever
\* the interleaving, no row written by one is overwritten by the other, and every row
\* each run recorded is in the local ledger when both have finished.
C22_NoSharedState ==
    (\A w \in Projects : wpc[w] = "idle") =>
        \A w \in Projects : RowsOf(localLedger, w) = wlog[w]

-----------------------------------------------------------------------------
(* The loops around the sandboxed calls: the default-list loop of a        *)
(* sandboxed build_project (scripts/build_one.py) and the project loop of  *)
(* main of scripts/build_codeql_dbs.py run with --use-container            *)

\* the tool key build_inside_container picks the command by, build_one.py:384-391
Selector(attempt) ==
    IF attempt.mvn # NoKey THEN "mvn"
    ELSE IF attempt.gradle # NoKey THEN "gradle"
    ELSE IF attempt.gradlew # NoKey THEN "gradlew"
    ELSE "none"

\* the global ledger of the batches: a success row for each project
DriverLedger ==
    << Row("p1", "success", "17", "3.9.8", "n/a", "n/a"),
       Row("p2", "success", "8", "n/a", "7.6.4", "n/a") >>

\* main, build_codeql_dbs.py:238-249: the one project selected with --project (the first
\* row of that slug), or every project of load_build_info
Selected(projects, project) ==
    IF project = NoKey THEN projects
    ELSE LET hits == {i \in 1..Len(projects) : projects[i].project_slug = project}
         IN  IF hits = {} THEN << >>
             ELSE << projects[CHOOSE i \in hits : \A k \in hits : i <= k] >>

\* what the loop goes through
Items(d) == IF d.kind = "search" THEN ATTEMPTS ELSE Selected(merged, d.project)

\* what the loop does with the outcome of a call: build_one.py:428-429 returns True on
\* the first true and goes on after a false; build_codeql_dbs.py:249-251 goes on after a
\* return; neither catches an exception
AfterCall(kind, out) ==
    IF kind = "search"
    THEN (IF out = "true" THEN "true" ELSE IF out = "false" THEN "next" ELSE "raised")
    ELSE (IF out = "ok" THEN "next" ELSE "raised")

\* how the loop ends when its list is used up: build_one.py:431-432, end of main
Exhausted(kind) == IF kind = "search" THEN "false" ELSE "ok"

\* build_project(use_container=True) at its default-list loop, build_one.py:427, or
\* main of build_codeql_dbs.py up to its loop, 236-249
DriverStart ==
    /\ driver.state = "idle"
    /\ spc = "idle"
    /\ \E kind \in {"search", "batch"}, p \in Projects \cup {NoKey} :
        /\ kind = "search" => p # NoKey
        /\ merged' = IF kind = "batch" THEN load_build_info(localLedger, globalLedger) ELSE << >>
        /\ LET d == [kind |-> kind, project |-> p, idx |-> 1, log |-> << >>,
                     state |-> "running", result |-> "none"]
               items == IF kind = "search" THEN ATTEMPTS ELSE Selected(merged', p)
           IN  driver' = IF items = << >>
                         THEN [d EXCEPT !.state = "done", !.result = Exhausted(kind)]
                         ELSE d
    /\ UNCHANGED <<call, searchVars, sandboxVars, writerVars>>

\* the loop body calls build_inside_container, build_one.py:428, or
\* create_codeql_database_in_container, build_codeql_dbs.py:251 (242)
DriverInvoke ==
    /\ driver.state = "running"
    /\ spc = "idle"
    /\ \E j \in AttemptJobs \cup PipelineJobs :
        /\ IF driver.kind = "search"
           THEN /\ j.kind = "attempt"
                /\ j.slug = driver.project
                /\ j.selector = Selector(ATTEMPTS[driver.idx])
           ELSE /\ j.kind = "pipeline"
                /\ j.slug = Items(driver)[driver.idx].project_slug
        /\ job' = j
    /\ spc' = "ensure_image"
    /\ UNCHANGED <<images, container, events, pending, outcome, host_db>>
    /\ UNCHANGED <<searchVars, lookupVars, writerVars, driverVars>>

\* the call is over: the loop goes on, returns, or is left by the exception
DriverReturn ==
    /\ driver.state = "running"
    /\ spc = "done"
    /\ LET entry == [item |-> driver.idx, outcome |-> outcome, container |-> container]
           a == AfterCall(driver.kind, outcome)
           d == [driver EXCEPT !.log = Append(@, entry)]
       IN  driver' = IF a = "next"
                     THEN (IF driver.idx < Len(Items(driver))
                           THEN [d EXCEPT !.idx = @ + 1]
                           ELSE [d EXCEPT !.state = "done", !.result = Exhausted(driver.kind)])
                     ELSE [d EXCEPT !.state = "done", !.result = a]
    /\ job' = NoJob
    /\ spc' = "idle"
    /\ container' = "none"
    /\ events' = << >>
    /\ pending' = "none"
    /\ outcome' = "none"
    /\ host_db' = "absent"
    /\ UNCHANGED images
    /\ UNCHANGED <<searchVars, lookupVars, writerVars>>

\* the process exits; the image store stays
DriverExit ==
    /\ driver.state = "done"
    /\ driver' = NoDriver
    /\ merged' = << >>
    /\ UNCHANGED <<call, searchVars, sandboxVars, writerVars>>

InitDriver ==
    /\ localLedger = << >>
    /\ globalLedger = DriverLedger
    /\ ProcessIdle
    /\ SandboxIdle
    /\ LookupIdle
    /\ WritersIdle
    /\ DriverIdle

NextDriver ==
    \/ DriverStart \/ DriverInvoke \/ EnsureImageStep \/ CreateStep \/ StartStep \/ ExecStep
    \/ InjectStep \/ RepoInfoStep \/ FetchStep \/ PatchStep \/ BuildStep
    \/ ExtractStep \/ RemoveStep \/ DriverReturn \/ DriverExit

SpecDriver == InitDriver /\ [][NextDriver]_vars

-----------------------------------------------------------------------------
(* C23 *)

\* C23: in batch mode the pipeline driver processes every project of the merged ledger:
\* a fatal stage failure of one project does not prevent the runs of the projects after it.
C23_BatchContinues ==
    ( /\ driver.kind = "batch"
      /\ driver.project = NoKey
      /\ driver.state = "done"
      /\ \A k \in 1..Len(driver.log) : driver.log[k].outcome \in StageErrors \cup {"ok"} ) =>
        \A i \in 1..Len(merged) : \E k \in 1..Len(driver.log) : driver.log[k].item = i

-----------------------------------------------------------------------------
(* C25 *)

\* the sandboxes of the search that exist: those of earlier candidates and the current one
Existing ==
    Cardinality({k \in 1..Len(driver.log) :
                    driver.log[k].container \in {"created", "running", "stuck"}})
        + (IF container \in {"created", "running", "stuck"} THEN 1 ELSE 0)

\* the sandboxes of the search whose removal has not been invoked
InUse ==
    Cardinality({k \in 1..Len(driver.log) : driver.log[k].container \in {"created", "running"}})
        + (IF container \in {"created", "running"} THEN 1 ELSE 0)

\* the sandbox of every earlier candidate has had its removal invoked, and the current
\* candidate's command runs in a sandbox created in its own call
FreshPerCandidate ==
    /\ \A k \in 1..Len(driver.log) : driver.log[k].container \in {"none", "removed", "stuck"}
    /\ Count("create") <= 1
    /\ \A i \in 1..Len(events) :
        events[i].op = "exec" =>
            /\ \E j \in 1..(i - 1) : Went(j, "create")
            /\ \A j \in 1..(i - 1) : events[j].op # "remove"

\* C25 as stated: each candidate of a sandboxed search runs in a sandbox created for it
\* whose removal is invoked before the next one is created, and at most one sandbox of
\* the search exists at any time.
C25_AtMostOneExists ==
    driver.kind = "search" => (FreshPerCandidate /\ Existing <= 1)

\* C25, amended: each candidate of a sandboxed search runs in a sandbox created for it
\* whose removal is invoked before the next one is created, and at most one sandbox of
\* the search exists whose removal has not been invoked.
C25_AtMostOneInUse ==
    driver.kind = "search" => (FreshPerCandidate /\ InUse <= 1)

\* the third candidate runs in its sandbox while a sandbox of an earlier candidate, whose
\* removal failed, is still there
C25_Witness ==
    /\ driver.kind = "search"
    /\ driver.idx = Len(driver.log) + 1
    /\ Len(driver.log) >= 2
    /\ container = "running"
    /\ \E k \in 1..Len(driver.log) : driver.log[k].container = "stuck"

====
